---- MODULE Spec2Model ----
(***************************************************************************)
(* A model of streamlit_app.py: the research-result store kept in          *)
(* st.session_state.research_results and mirrored to research_results.json,*)
(* the view state (current_view, selected_research) and the research       *)
(* submission handler conduct_research.                                    *)
(*                                                                         *)
(* Text is a sequence of one-character strings.  A JSON value (what Python *)
(* holds as str / number / bool / None / list / dict) is a node            *)
(*     [tag, text, items]                                                  *)
(* with tag in "str","num","bool","null","list","dict"; a dict's items are *)
(* "pair" nodes (text = the key, items = <<value>>) in insertion order.    *)
(***************************************************************************)
EXTENDS Integers, Sequences, FiniteSets, TLC

\* ------------------------------------------------------------------ bounds
\* The wall clock runs over the seconds 1..MaxClock.
MaxClock == 2

\* ------------------------------------------------------------- JSON values
Str(t) == [tag |-> "str", text |-> t, items |-> <<>>]
Num(t) == [tag |-> "num", text |-> t, items |-> <<>>]
JNull == [tag |-> "null", text |-> <<>>, items |-> <<>>]
List(xs) == [tag |-> "list", text |-> <<>>, items |-> xs]
Dict(ps) == [tag |-> "dict", text |-> <<>>, items |-> ps]
Pair(k, v) == [tag |-> "pair", text |-> k, items |-> <<v>>]

ScalarTags == {"str", "num", "bool", "null"}

\* The empty dict {} of line 47.
EmptyDict == Dict(<<>>)

\* Python's `key in d`.
HasKey(d, k) == \E i \in 1..Len(d.items) : d.items[i].text = k

\* Python's d.keys(), in insertion order.
Keys(d) == [i \in 1..Len(d.items) |-> d.items[i].text]

\* Python's d[k] for a key that is present.
Get(d, k) == (d.items[CHOOSE i \in 1..Len(d.items) : d.items[i].text = k]).items[1]

\* Python's d[k] = v: a present key keeps its place and takes the new value,
\* a new key is appended.
DictSet(d, k, v) ==
    IF HasKey(d, k)
    THEN Dict([i \in 1..Len(d.items) |->
                 IF d.items[i].text = k THEN Pair(k, v) ELSE d.items[i]])
    ELSE Dict(Append(d.items, Pair(k, v)))

\* ------------------------------------------------- json.dump / json.load
\* The file's content is a sequence of JSON tokens [t, v].
Tok(t, v) == [t |-> t, v |-> v]
Punct(t) == Tok(t, <<>>)

RECURSIVE Encode(_)
RECURSIVE EncodeItems(_, _)
\* The elements of a list or the members of a dict from index i on,
\* comma-separated.
EncodeItems(xs, i) ==
    IF i > Len(xs) THEN <<>>
    ELSE (IF i > 1 THEN <<Punct(",")>> ELSE <<>>)
         \o (IF xs[i].tag = "pair"
             THEN <<Tok("str", xs[i].text), Punct(":")>> \o Encode(xs[i].items[1])
             ELSE Encode(xs[i]))
         \o EncodeItems(xs, i + 1)

\* json.dump's output for a value.
Encode(v) ==
    CASE v.tag \in ScalarTags -> <<Tok(v.tag, v.text)>>
      [] v.tag = "list" -> <<Punct("[")>> \o EncodeItems(v.items, 1) \o <<Punct("]")>>
      [] v.tag = "dict" -> <<Punct("{")>> \o EncodeItems(v.items, 1) \o <<Punct("}")>>

ParseFail == [ok |-> FALSE, val |-> JNull, pos |-> 0]
ParseOk(v, p) == [ok |-> TRUE, val |-> v, pos |-> p]

RECURSIVE ParseValue(_, _)
RECURSIVE ParseElems(_, _, _)
RECURSIVE ParseMembers(_, _, _)

\* The rest of a list after "[" or ",": a value, then "," or "]".
ParseElems(toks, i, acc) ==
    LET r == ParseValue(toks, i) IN
    IF ~r.ok \/ r.pos > Len(toks) THEN ParseFail
    ELSE IF toks[r.pos].t = "," THEN ParseElems(toks, r.pos + 1, Append(acc, r.val))
    ELSE IF toks[r.pos].t = "]" THEN ParseOk(List(Append(acc, r.val)), r.pos + 1)
    ELSE ParseFail

\* The rest of an object after "{" or ",": a string key, ":", a value, then
\* "," or "}".  A repeated key keeps its first place and its last value, as
\* Python's dict does.
ParseMembers(toks, i, acc) ==
    IF i + 1 > Len(toks) \/ toks[i].t # "str" \/ toks[i + 1].t # ":" THEN ParseFail
    ELSE LET r == ParseValue(toks, i + 2) IN
         IF ~r.ok \/ r.pos > Len(toks) THEN ParseFail
         ELSE IF toks[r.pos].t = ","
              THEN ParseMembers(toks, r.pos + 1, DictSet(acc, toks[i].v, r.val))
         ELSE IF toks[r.pos].t = "}"
              THEN ParseOk(DictSet(acc, toks[i].v, r.val), r.pos + 1)
         ELSE ParseFail

\* One JSON value starting at token i.
ParseValue(toks, i) ==
    IF i > Len(toks) THEN ParseFail
    ELSE CASE toks[i].t \in ScalarTags ->
                ParseOk([tag |-> toks[i].t, text |-> toks[i].v, items |-> <<>>], i + 1)
           [] toks[i].t = "[" ->
                IF i + 1 <= Len(toks) /\ toks[i + 1].t = "]"
                THEN ParseOk(List(<<>>), i + 2)
                ELSE ParseElems(toks, i + 1, <<>>)
           [] toks[i].t = "{" ->
                IF i + 1 <= Len(toks) /\ toks[i + 1].t = "}"
                THEN ParseOk(EmptyDict, i + 2)
                ELSE ParseMembers(toks, i + 1, EmptyDict)
           [] OTHER -> ParseFail

\* json.load: the whole content must be one value; anything else raises.
JsonLoad(toks) ==
    LET r == ParseValue(toks, 1) IN
    IF r.ok /\ r.pos = Len(toks) + 1 THEN r ELSE ParseFail

\* ------------------------------------------------------------ input sets
Sessions == {1, 2}
\* The sessions that act under Spec: one browser session.
Solo == {1}

\* What the user may type as the research topic (line 173); <<>> is an empty field.
TopicInputs == {<<>>, <<"X">>}
\* What the user may type as the focus areas (line 174).
FocusInputs == {<<>>, <<"a", ",", " ", "b", ",">>}
\* What the user may type into the API key field (line 88).
KeyInputs == {<<>>, <<"k">>}
\* Result trees the collaborator may return (line 143).
ResultTrees ==
    { Dict(<<Pair(<<"m">>, Dict(<<Pair(<<"a">>, Num(<<"0", ".", "9">>))>>)),
             Pair(<<"n">>, Str(<<"*", "*", "d", "*", "*">>))>>),
      List(<<Str(<<"a">>), JNull>>) }
\* Messages of the exceptions the collaborator may raise.
ErrorMessages == {<<"t", "i", "m", "e", "o", "u", "t">>}

\* session_state.api_key = None (line 59).  None and "" are told apart nowhere:
\* every test of the key is a truth test.
NoKey == <<>>
\* session_state has no attribute selected_research (line 189).
NoAttr == <<>>

K_topic == <<"t", "o", "p", "i", "c">>
K_focus_areas == <<"f", "o", "c", "u", "s", "_", "a", "r", "e", "a", "s">>
K_results == <<"r", "e", "s", "u", "l", "t", "s">>

\* The record stored under a timestamp (lines 147-151).
Record(topic, focus_areas, results) ==
    Dict(<<Pair(K_topic, Str(topic)),
           Pair(K_focus_areas, Str(focus_areas)),
           Pair(K_results, results)>>)

\* ------------------------------------------------------------ timestamps
Digits == <<"0", "1", "2", "3", "4", "5", "6", "7", "8", "9">>
TwoDigits(n) == <<Digits[(n \div 10) + 1], Digits[(n % 10) + 1]>>

\* datetime.now().strftime("%Y-%m-%d %H:%M:%S") for the wall clock t, in
\* seconds since midnight of one day.
Format(t) ==
    <<"2", "0", "2", "4", "-", "0", "1", "-", "0", "1", " ">>
    \o TwoDigits((t \div 3600) % 24) \o <<":">>
    \o TwoDigits((t \div 60) % 60) \o <<":">>
    \o TwoDigits(t % 60)

\* ------------------------------------------------- the Markdown export
Bool(t) == [tag |-> "bool", text |-> t, items |-> <<>>]

\* The frames the interpreter has left for dict_to_markdown when the export
\* runs (sys.getrecursionlimit() less the frames in use), scaled down: a call
\* nested deeper raises RecursionError.
StackLimit == 3

\* Python's str * n.
RECURSIVE Repeat(_, _)
Repeat(t, n) == IF n <= 0 THEN <<>> ELSE t \o Repeat(t, n - 1)

\* Python's `sub in text` for strings.
Contains(text, sub) ==
    \E i \in 0..(Len(text) - Len(sub)) :
      \A j \in 1..Len(sub) : text[i + j] = sub[j]

\* Python's text.split(sep) for a one-character sep.
RECURSIVE Split(_, _)
Split(text, sep) ==
    IF \A i \in 1..Len(text) : text[i] # sep THEN <<text>>
    ELSE LET i == CHOOSE k \in 1..Len(text) :
                    text[k] = sep /\ \A j \in 1..(k - 1) : text[j] # sep
         IN <<SubSeq(text, 1, i - 1)>> \o Split(SubSeq(text, i + 1, Len(text)), sep)

\* Python's text.strip(): the whitespace at both ends is dropped.
Whitespace == {" ", "\t", "\n", "\r"}
RECURSIVE Strip(_)
Strip(text) ==
    IF text = <<>> THEN <<>>
    ELSE IF Head(text) \in Whitespace THEN Strip(Tail(text))
    ELSE IF text[Len(text)] \in Whitespace THEN Strip(SubSeq(text, 1, Len(text) - 1))
    ELSE text

\* Line 134: [area.strip() for area in focus_areas.split(",")].
FocusAreas(focus_areas) ==
    LET areas == Split(focus_areas, ",")
    IN [i \in 1..Len(areas) |-> Strip(areas[i])]

\* Lines 133-140: task_notes, which lab.conduct_research is given.
TaskNotes(focus_areas) ==
    [focus_areas |-> FocusAreas(focus_areas),
     experiment_preferences |->
       [dataset_size |-> "small", model_complexity |-> "medium",
        evaluation_metrics |-> <<"accuracy", "perplexity">>]]

\* Line 213: ['###', '##', '#', '**', '-'].
Markers == {<<"#", "#", "#">>, <<"#", "#">>, <<"#">>, <<"*", "*">>, <<"-">>}

\* Python's str(value), as the f-strings of lines 214-225 apply it to a scalar.
PyStr(v) ==
    CASE v.tag = "str" -> v.text
      [] v.tag = "num" -> v.text
      [] v.tag = "bool" -> IF v.text = <<"t", "r", "u", "e">>
                           THEN <<"T", "r", "u", "e">>
                           ELSE <<"F", "a", "l", "s", "e">>
      [] v.tag = "null" -> <<"N", "o", "n", "e">>

\* IsMarkdown without the isinstance(value, str) of line 213: str(value) is
\* searched, whatever the value's type.
IsMarkdownAnyType(v) == \E m \in Markers : Contains(PyStr(v), m)

\* Line 213: isinstance(value, str) and any(marker in value for marker in ...).
IsMarkdown(v) == v.tag = "str" /\ \E m \in Markers : Contains(v.text, m)

\* isinstance(value, (dict, list)).
IsContainer(v) == v.tag \in {"dict", "list"}

\* indent = "  " * level (line 204).
Indent(level) == Repeat(<<" ", " ">>, level)

HeadingOf(level, key) == Indent(level) \o <<"#", "#", "#", " ">> \o key \o <<"\n", "\n">>
\* The character U+0060, which a TLA+ string cannot hold: one element of a text.
Backquote == "U+0060"

\* The fence line of line 216.
Fence == <<Backquote, Backquote, Backquote, "\n">>

RECURSIVE dict_to_markdown(_, _)
RECURSIVE RenderPairs(_, _, _)
RECURSIVE RenderElements(_, _, _)

\* Lines 207-216, for the pairs from index i on.
RenderPairs(ps, i, level) ==
    IF i > Len(ps) THEN <<>>
    ELSE LET key == ps[i].text
             value == ps[i].items[1]
         IN (IF IsContainer(value)
             THEN HeadingOf(level, key) \o dict_to_markdown(value, level + 1)
             ELSE IF IsMarkdown(value)
             THEN HeadingOf(level, key) \o value.text \o <<"\n", "\n">>
             ELSE HeadingOf(level, key) \o Fence \o PyStr(value) \o <<"\n">>
                  \o Fence \o <<"\n">>)
            \o RenderPairs(ps, i + 1, level)

\* Lines 218-222, for the elements from index i on.
RenderElements(xs, i, level) ==
    IF i > Len(xs) THEN <<>>
    ELSE (IF IsContainer(xs[i])
          THEN dict_to_markdown(xs[i], level)
          ELSE Indent(level) \o <<"-", " ">> \o PyStr(xs[i]) \o <<"\n">>)
         \o RenderElements(xs, i + 1, level)

\* Lines 202-226.
dict_to_markdown(d, level) ==
    CASE d.tag = "dict" -> RenderPairs(d.items, 1, level)
      [] d.tag = "list" -> RenderElements(d.items, 1, level) \o <<"\n">>
      [] OTHER -> Indent(level) \o PyStr(d) \o <<"\n", "\n">>

\* The frames a call of dict_to_markdown on d takes: one, and those of the
\* deepest call it makes (lines 210 and 220).
RECURSIVE Frames(_)
RECURSIVE MaxFrames(_, _)
MaxFrames(xs, i) ==
    IF i > Len(xs) THEN 0
    ELSE LET child == IF xs[i].tag = "pair" THEN xs[i].items[1] ELSE xs[i]
             here == IF IsContainer(child) THEN Frames(child) ELSE 0
             rest == MaxFrames(xs, i + 1)
         IN IF here > rest THEN here ELSE rest
Frames(d) == 1 + (IF IsContainer(d) THEN MaxFrames(d.items, 1) ELSE 0)

\* Lines 229-231: the head of md_content.
DocumentHead(research) ==
    <<"#", " ", "R", "e", "s", "e", "a", "r", "c", "h", " ", "R", "e", "s", "u", "l", "t", "s", ":", " ">> \o Get(research, K_topic).text \o <<"\n", "\n">>
    \o <<"#", "#", " ", "F", "o", "c", "u", "s", " ", "A", "r", "e", "a", "s", "\n">> \o Get(research, K_focus_areas).text \o <<"\n", "\n">>
    \o <<"#", "#", " ", "R", "e", "s", "u", "l", "t", "s", "\n", "\n">>

\* Lines 229-232: md_content.
Document(research) ==
    DocumentHead(research) \o dict_to_markdown(Get(research, K_results), 0)

\* ------------------------------------------------------------------ state
VARIABLES
    file,               \* research_results.json: [exists, content]
    clock,              \* the wall clock, in seconds
    pc,                 \* per session: "none" (no session), "idle", "saving"
    research_results,   \* session_state.research_results
    api_key,            \* session_state.api_key
    api_key_input,      \* the value of the API key widget
    current_view,       \* session_state.current_view
    selected_research,  \* session_state.selected_research
    frame,              \* conduct_research's locals: topic, focus_areas, task_notes,
                        \* results, timestamp
    ui,                 \* the message the latest script run put in the main area
    lab_called,         \* whether the latest interaction called the collaborator
    trigger,            \* the interaction the session handled last
    last_save,          \* how the session's latest save_results ended
    created,            \* the timestamps this session stored results under
    download            \* the download button the latest script run showed

vars == <<file, clock, pc, research_results, api_key, api_key_input, current_view,
          selected_research, frame, ui, lab_called, trigger, last_save, created,
          download>>

NoFile == [exists |-> FALSE, content |-> <<>>]
FileOf(content) == [exists |-> TRUE, content |-> content]

NoMessage == [kind |-> "none", id |-> "none", detail |-> <<>>]
\* st.error("Please enter your OpenAI API key in the sidebar first!")
ApiKeyError == [kind |-> "error", id |-> "api_key_required", detail |-> <<>>]
\* st.error(f"Error during research: {str(e)}")
ResearchError(msg) == [kind |-> "error", id |-> "error_during_research", detail |-> msg]

\* An uncaught exception, which Streamlit shows in place of the rest of the page.
Uncaught(name) == [kind |-> "exception", id |-> name, detail |-> <<>>]

\* No st.download_button was run (line 234 is inside the if of line 201).
NoDownload == [shown |-> FALSE, data |-> <<>>]
\* Lines 234-239: st.download_button(data=md_content, ...).
DownloadOf(md_content) == [shown |-> TRUE, data |-> md_content]

NoFrame ==
    [topic |-> <<>>, focus_areas |-> <<>>, task_notes |-> TaskNotes(<<>>),
     results |-> JNull, timestamp |-> <<>>]

\* A store an earlier process left behind: one record, stamped before the
\* clock's first second.
OldStore ==
    Dict(<<Pair(Format(0), Record(<<"O">>, <<"f">>, Str(<<"r">>)))>>)

\* The files a session may find at start: none, a valid one, a truncated one.
InitFiles ==
    { NoFile, FileOf(Encode(OldStore)), FileOf(SubSeq(Encode(OldStore), 1, 3)) }

\* Load without the except of lines 54-56: what a failed parse gave is kept.
LoadStrict(f) ==
    IF ~f.exists THEN EmptyDict ELSE JsonLoad(f.content).val

\* Lines 46-56: no file gives {}; a file that json.load cannot read gives {}
\* (the bare except); a readable file gives its value.
Load(f) ==
    IF ~f.exists THEN EmptyDict
    ELSE LET r == JsonLoad(f.content) IN
         IF r.ok THEN r.val ELSE EmptyDict

\* Lines 90-91, run by every script run: a non-empty widget value becomes the key.
SidebarKey(s) == IF api_key_input[s] # <<>> THEN api_key_input[s] ELSE api_key[s]

\* No session has started and the clock reads its first second.
Quiescent ==
    /\ clock = 1
    /\ pc = [s \in Sessions |-> "none"]
    /\ research_results = [s \in Sessions |-> EmptyDict]
    /\ api_key = [s \in Sessions |-> NoKey]
    /\ api_key_input = [s \in Sessions |-> <<>>]
    /\ current_view = [s \in Sessions |-> "unset"]
    /\ selected_research = [s \in Sessions |-> NoAttr]
    /\ frame = [s \in Sessions |-> NoFrame]
    /\ ui = [s \in Sessions |-> NoMessage]
    /\ lab_called = [s \in Sessions |-> FALSE]
    /\ trigger = [s \in Sessions |-> "none"]
    /\ last_save = [s \in Sessions |-> "none"]
    /\ created = [s \in Sessions |-> {}]
    /\ download = [s \in Sessions |-> NoDownload]

Init ==
    /\ file \in InitFiles
    /\ Quiescent

\* What a script run that calls nothing leaves in the run's outputs.
QuietRun(s, what) ==
    /\ ui' = [ui EXCEPT ![s] = NoMessage]
    /\ lab_called' = [lab_called EXCEPT ![s] = FALSE]
    /\ trigger' = [trigger EXCEPT ![s] = what]
    /\ download' = [download EXCEPT ![s] = NoDownload]

\* The first script run of a new session (lines 46-59, 166-167).
StartSession(s) ==
    /\ pc[s] = "none"
    /\ pc' = [pc EXCEPT ![s] = "idle"]
    /\ research_results' = [research_results EXCEPT ![s] = Load(file)]
    /\ api_key' = [api_key EXCEPT ![s] = NoKey]
    /\ api_key_input' = [api_key_input EXCEPT ![s] = <<>>]
    /\ current_view' = [current_view EXCEPT ![s] = "new_research"]
    /\ selected_research' = [selected_research EXCEPT ![s] = NoAttr]
    /\ QuietRun(s, "start")
    /\ UNCHANGED <<file, clock, frame, last_save, created>>

\* What every way of losing the session state leaves.
Discard(s) ==
    /\ pc' = [pc EXCEPT ![s] = "none"]
    /\ research_results' = [research_results EXCEPT ![s] = EmptyDict]
    /\ api_key' = [api_key EXCEPT ![s] = NoKey]
    /\ api_key_input' = [api_key_input EXCEPT ![s] = <<>>]
    /\ current_view' = [current_view EXCEPT ![s] = "unset"]
    /\ selected_research' = [selected_research EXCEPT ![s] = NoAttr]
    /\ frame' = [frame EXCEPT ![s] = NoFrame]
    /\ ui' = [ui EXCEPT ![s] = NoMessage]
    /\ lab_called' = [lab_called EXCEPT ![s] = FALSE]
    /\ trigger' = [trigger EXCEPT ![s] = "none"]
    /\ last_save' = [last_save EXCEPT ![s] = "none"]
    /\ created' = [created EXCEPT ![s] = {}]
    /\ download' = [download EXCEPT ![s] = NoDownload]

\* The browser session ends (the page is reloaded or closed): st.session_state
\* is gone, the file stays.
EndSession(s) ==
    /\ pc[s] = "idle"
    /\ Discard(s)
    /\ UNCHANGED <<file, clock>>

\* The user edits the API key field (lines 88-91).
EnterKey(s, k) ==
    /\ pc[s] = "idle"
    /\ api_key_input' = [api_key_input EXCEPT ![s] = k]
    /\ api_key' = [api_key EXCEPT ![s] = IF k # <<>> THEN k ELSE api_key[s]]
    /\ QuietRun(s, "api_key_input")
    /\ UNCHANGED <<file, clock, pc, research_results, current_view,
                   selected_research, frame, last_save, created>>

\* NewResearch without line 101: the view is left as it was.
NewResearchKeepsView(s) ==
    /\ pc[s] = "idle"
    /\ api_key' = [api_key EXCEPT ![s] = SidebarKey(s)]
    /\ QuietRun(s, "new_research_button")
    /\ UNCHANGED <<file, clock, pc, research_results, api_key_input, current_view,
                   selected_research, frame, last_save, created>>

\* The New Research button (lines 100-101).
NewResearch(s) ==
    /\ pc[s] = "idle"
    /\ api_key' = [api_key EXCEPT ![s] = SidebarKey(s)]
    /\ current_view' = [current_view EXCEPT ![s] = "new_research"]
    /\ QuietRun(s, "new_research_button")
    /\ UNCHANGED <<file, clock, pc, research_results, api_key_input,
                   selected_research, frame, last_save, created>>

\* The identifiers the sidebar offers a button for (lines 104-107).
Offered(s) == {Keys(research_results[s])[i] : i \in 1..Len(research_results[s].items)}

\* SelectRecord with the store read from the file again (lines 50-54 outside
\* the test of line 46).
SelectRecordReloads(s, id) ==
    /\ pc[s] = "idle"
    /\ id \in Offered(s)
    /\ research_results' = [research_results EXCEPT ![s] = Load(file)]
    /\ api_key' = [api_key EXCEPT ![s] = SidebarKey(s)]
    /\ current_view' = [current_view EXCEPT ![s] = "view_research"]
    /\ selected_research' = [selected_research EXCEPT ![s] = id]
    /\ QuietRun(s, "record_button")
    /\ UNCHANGED <<file, clock, pc, api_key_input, frame, last_save, created>>

\* A record's button (lines 106-109).
SelectRecord(s, id) ==
    /\ pc[s] = "idle"
    /\ id \in Offered(s)
    /\ api_key' = [api_key EXCEPT ![s] = SidebarKey(s)]
    /\ current_view' = [current_view EXCEPT ![s] = "view_research"]
    /\ selected_research' = [selected_research EXCEPT ![s] = id]
    /\ QuietRun(s, "record_button")
    /\ UNCHANGED <<file, clock, pc, research_results, api_key_input, frame, last_save, created>>

\* Export with the button outside the branch of line 188: it is offered on
\* the form as well, once a record has been selected.
ExportAnyView(s) ==
    /\ pc[s] = "idle"
    /\ selected_research[s] # NoAttr
    /\ HasKey(research_results[s], selected_research[s])
    /\ api_key' = [api_key EXCEPT ![s] = SidebarKey(s)]
    /\ ui' = [ui EXCEPT ![s] = NoMessage]
    /\ download' = [download EXCEPT ![s] =
                     DownloadOf(Document(Get(research_results[s], selected_research[s])))]
    /\ lab_called' = [lab_called EXCEPT ![s] = FALSE]
    /\ trigger' = [trigger EXCEPT ![s] = "export_button"]
    /\ UNCHANGED <<file, clock, pc, research_results, api_key_input, current_view,
                   selected_research, frame, last_save, created>>

\* The Export as Markdown button of the record view (lines 188-190, 201-239):
\* md_content is built and offered for download.  A tree that takes more
\* frames than the interpreter has left raises RecursionError out of line 232,
\* which nothing catches.  (Line 190 finds the record: see C20.)
Export(s) ==
    /\ pc[s] = "idle"
    /\ current_view[s] = "view_research"
    /\ selected_research[s] # NoAttr
    /\ HasKey(research_results[s], selected_research[s])
    /\ api_key' = [api_key EXCEPT ![s] = SidebarKey(s)]
    /\ LET research == Get(research_results[s], selected_research[s])
           fits == Frames(Get(research, K_results)) <= StackLimit
       IN /\ ui' = [ui EXCEPT ![s] =
                     IF fits THEN NoMessage ELSE Uncaught("RecursionError")]
          /\ download' = [download EXCEPT ![s] =
                           IF fits THEN DownloadOf(Document(research)) ELSE NoDownload]
    /\ lab_called' = [lab_called EXCEPT ![s] = FALSE]
    /\ trigger' = [trigger EXCEPT ![s] = "export_button"]
    /\ UNCHANGED <<file, clock, pc, research_results, api_key_input, current_view,
                   selected_research, frame, last_save, created>>

\* The wall clock advances by a second.
Tick ==
    /\ clock < MaxClock
    /\ clock' = clock + 1
    /\ UNCHANGED <<file, pc, research_results, api_key, api_key_input, current_view,
                   selected_research, frame, ui, lab_called, trigger, last_save, created,
                   download>>

\* -------------------------------------------------- the research form
\* The form is on screen (line 169) and its button is pressed (line 177).
FormSubmitted(s) ==
    /\ pc[s] = "idle"
    /\ current_view[s] = "new_research"

\* The form without the test of line 178 (nor that of line 125): the
\* collaborator is built with no key, and its exception is reported.
SubmitNoKeyConducts(s, topic, focus_areas) ==
    /\ FormSubmitted(s)
    /\ SidebarKey(s) = NoKey
    /\ api_key' = [api_key EXCEPT ![s] = SidebarKey(s)]
    /\ ui' = [ui EXCEPT ![s] = ResearchError(<<>>)]
    /\ lab_called' = [lab_called EXCEPT ![s] = TRUE]
    /\ trigger' = [trigger EXCEPT ![s] = "form_submit"]
    /\ download' = [download EXCEPT ![s] = NoDownload]
    /\ UNCHANGED <<file, clock, pc, research_results, api_key_input, current_view,
                   selected_research, frame, last_save, created>>

\* Lines 178-179: no key.  (conduct_research's own test, lines 125-127, is
\* then never reached from the form.)
SubmitNoKey(s, topic, focus_areas) ==
    /\ FormSubmitted(s)
    /\ SidebarKey(s) = NoKey
    /\ api_key' = [api_key EXCEPT ![s] = SidebarKey(s)]
    /\ ui' = [ui EXCEPT ![s] = ApiKeyError]
    /\ lab_called' = [lab_called EXCEPT ![s] = FALSE]
    /\ trigger' = [trigger EXCEPT ![s] = "form_submit"]
    /\ download' = [download EXCEPT ![s] = NoDownload]
    /\ UNCHANGED <<file, clock, pc, research_results, api_key_input, current_view,
                   selected_research, frame, last_save, created>>

\* Line 180 is false: a field is empty, and nothing is said.
SubmitIncomplete(s, topic, focus_areas) ==
    /\ FormSubmitted(s)
    /\ SidebarKey(s) # NoKey
    /\ topic = <<>> \/ focus_areas = <<>>
    /\ api_key' = [api_key EXCEPT ![s] = SidebarKey(s)]
    /\ QuietRun(s, "form_submit")
    /\ UNCHANGED <<file, clock, pc, research_results, api_key_input, current_view,
                   selected_research, frame, last_save, created>>

\* Line 181 is reached: conduct_research(topic, focus_areas) is called.
Conducts(s, topic, focus_areas) ==
    /\ FormSubmitted(s)
    /\ SidebarKey(s) # NoKey
    /\ topic # <<>>
    /\ focus_areas # <<>>

\* SubmitLabFails with the view switched (lines 155-156) before the
\* collaborator is called.
SubmitLabFailsSwitchesView(s, topic, focus_areas, msg) ==
    /\ Conducts(s, topic, focus_areas)
    /\ api_key' = [api_key EXCEPT ![s] = SidebarKey(s)]
    /\ ui' = [ui EXCEPT ![s] = ResearchError(msg)]
    /\ lab_called' = [lab_called EXCEPT ![s] = TRUE]
    /\ trigger' = [trigger EXCEPT ![s] = "form_submit"]
    /\ download' = [download EXCEPT ![s] = NoDownload]
    /\ current_view' = [current_view EXCEPT ![s] = "view_research"]
    /\ UNCHANGED <<file, clock, pc, research_results, api_key_input,
                   selected_research, frame, last_save, created>>

\* Lines 129-143 raise; lines 162-163 and 185 report the exception's message.
SubmitLabFails(s, topic, focus_areas, msg) ==
    /\ Conducts(s, topic, focus_areas)
    /\ api_key' = [api_key EXCEPT ![s] = SidebarKey(s)]
    /\ ui' = [ui EXCEPT ![s] = ResearchError(msg)]
    /\ lab_called' = [lab_called EXCEPT ![s] = TRUE]
    /\ trigger' = [trigger EXCEPT ![s] = "form_submit"]
    /\ download' = [download EXCEPT ![s] = NoDownload]
    /\ UNCHANGED <<file, clock, pc, research_results, api_key_input, current_view,
                   selected_research, frame, last_save, created>>

\* Inserted with the clock read again for the key, a second after the timestamp
\* of line 146 was taken.
InsertedLater(d, now, topic, focus_areas, results) ==
    DictSet(d, Format(now + 1), Record(topic, focus_areas, results))

\* Lines 146-151: the results are stored under the second's timestamp.
Inserted(d, now, topic, focus_areas, results) ==
    DictSet(d, Format(now), Record(topic, focus_areas, results))

\* StoreResults with the key put in the record, in the place of the focus areas.
StoreResultsWithKey(s, topic, focus_areas, results) ==
    /\ Conducts(s, topic, focus_areas)
    /\ api_key' = [api_key EXCEPT ![s] = SidebarKey(s)]
    /\ research_results' =
         [research_results EXCEPT ![s] = Inserted(@, clock, topic, SidebarKey(s), results)]
    /\ frame' = [frame EXCEPT ![s] =
                   [topic |-> topic, focus_areas |-> focus_areas,
                    task_notes |-> TaskNotes(focus_areas),
                    results |-> results, timestamp |-> Format(clock)]]
    /\ ui' = [ui EXCEPT ![s] = NoMessage]
    /\ lab_called' = [lab_called EXCEPT ![s] = TRUE]
    /\ trigger' = [trigger EXCEPT ![s] = "form_submit"]
    /\ download' = [download EXCEPT ![s] = NoDownload]
    /\ created' = [created EXCEPT ![s] = @ \cup {Format(clock)}]

\* Lines 143-151, common to every run in which the collaborator returns.
StoreResults(s, topic, focus_areas, results) ==
    /\ Conducts(s, topic, focus_areas)
    /\ api_key' = [api_key EXCEPT ![s] = SidebarKey(s)]
    /\ research_results' =
         [research_results EXCEPT ![s] = Inserted(@, clock, topic, focus_areas, results)]
    /\ frame' = [frame EXCEPT ![s] =
                   [topic |-> topic, focus_areas |-> focus_areas,
                    task_notes |-> TaskNotes(focus_areas),
                    results |-> results, timestamp |-> Format(clock)]]
    /\ ui' = [ui EXCEPT ![s] = NoMessage]
    /\ lab_called' = [lab_called EXCEPT ![s] = TRUE]
    /\ trigger' = [trigger EXCEPT ![s] = "form_submit"]
    /\ download' = [download EXCEPT ![s] = NoDownload]
    /\ created' = [created EXCEPT ![s] = @ \cup {Format(clock)}]

\* ShowNew without line 156: the selection is left as it was.
ShowNewKeepsSelection(s, ts) ==
    /\ current_view' = [current_view EXCEPT ![s] = "view_research"]
    /\ UNCHANGED selected_research

\* Lines 155-159: the view is switched to the new record and the script reruns.
ShowNew(s, ts) ==
    /\ current_view' = [current_view EXCEPT ![s] = "view_research"]
    /\ selected_research' = [selected_research EXCEPT ![s] = ts]

\* save_results cannot open the file for writing (line 64 raises, line 66
\* swallows it): the file is as it was, and conduct_research goes on.
SubmitOpenFails(s, topic, focus_areas, results) ==
    /\ StoreResults(s, topic, focus_areas, results)
    /\ last_save' = [last_save EXCEPT ![s] = "failed"]
    /\ ShowNew(s, Format(clock))
    /\ UNCHANGED <<file, clock, pc, api_key_input>>

\* SubmitBeginSave with lines 155-156 moved before save_results().
SubmitBeginSaveShowsFirst(s, topic, focus_areas, results) ==
    /\ StoreResults(s, topic, focus_areas, results)
    /\ file' = FileOf(<<>>)
    /\ pc' = [pc EXCEPT ![s] = "saving"]
    /\ last_save' = [last_save EXCEPT ![s] = "writing"]
    /\ ShowNew(s, Format(clock))
    /\ UNCHANGED <<clock, api_key_input>>

\* save_results opens the file (line 64): mode "w" creates or empties it.
SubmitBeginSave(s, topic, focus_areas, results) ==
    /\ StoreResults(s, topic, focus_areas, results)
    /\ file' = FileOf(<<>>)
    /\ pc' = [pc EXCEPT ![s] = "saving"]
    /\ last_save' = [last_save EXCEPT ![s] = "writing"]
    /\ UNCHANGED <<clock, api_key_input, current_view, selected_research>>

\* json.dump given the newest record alone instead of the whole mapping.
DumpedNewest(old, d) == Encode(Dict(<<d.items[Len(d.items)]>>))

\* What the file holds once json.dump (line 65) has written d and the file is
\* closed: mode "w" left nothing of the old content.
DumpedContent(old, d) == Encode(d)

\* The lengths at which a write that does not complete is taken to leave the
\* content: nothing, half of it, all but its last token.  (StrictPrefixesUnreadable
\* below covers every length.)
PartialLengths(content) == {0, Len(content) \div 2, Len(content) - 1}

\* Line 65 completes; lines 155-159 follow.
FinishSave(s) ==
    /\ pc[s] = "saving"
    /\ file' = FileOf(DumpedContent(file.content, research_results[s]))
    /\ last_save' = [last_save EXCEPT ![s] = "committed"]
    /\ pc' = [pc EXCEPT ![s] = "idle"]
    /\ ShowNew(s, frame[s].timestamp)
    /\ UNCHANGED <<clock, research_results, api_key, api_key_input, frame, ui,
                   lab_called, trigger, created, download>>

\* FailSave with the except of lines 66-68 returning to the form: the new
\* record is not put on show.
FailSaveStaysOnForm(s, n) ==
    /\ pc[s] = "saving"
    /\ n \in PartialLengths(Encode(research_results[s]))
    /\ file' = FileOf(SubSeq(Encode(research_results[s]), 1, n))
    /\ last_save' = [last_save EXCEPT ![s] = "failed"]
    /\ pc' = [pc EXCEPT ![s] = "idle"]
    /\ UNCHANGED <<clock, research_results, api_key, api_key_input, frame, ui,
                   lab_called, trigger, created, download, current_view,
                   selected_research>>

\* Line 65 raises part-way (the disk is full, a value cannot be serialised):
\* what was written stays, line 66 swallows the exception, lines 155-159 follow.
FailSave(s, n) ==
    /\ pc[s] = "saving"
    /\ n \in PartialLengths(Encode(research_results[s]))
    /\ file' = FileOf(SubSeq(Encode(research_results[s]), 1, n))
    /\ last_save' = [last_save EXCEPT ![s] = "failed"]
    /\ pc' = [pc EXCEPT ![s] = "idle"]
    /\ ShowNew(s, frame[s].timestamp)
    /\ UNCHANGED <<clock, research_results, api_key, api_key_input, frame, ui,
                   lab_called, trigger, created, download>>

\* The process is killed while line 65 runs: the session is gone and the file
\* holds what had reached it.
Crash(s, n) ==
    /\ pc[s] = "saving"
    /\ n \in PartialLengths(Encode(research_results[s]))
    /\ file' = FileOf(SubSeq(Encode(research_results[s]), 1, n))
    /\ Discard(s)
    /\ UNCHANGED clock

\* ------------------------------------------------------- specification
Next ==
    \/ Tick
    \/ \E s \in Solo :
         \/ StartSession(s)
         \/ EndSession(s)
         \/ \E k \in KeyInputs : EnterKey(s, k)
         \/ NewResearch(s)
         \/ \E id \in Offered(s) : SelectRecord(s, id)
         \/ Export(s)
         \/ \E topic \in TopicInputs, focus_areas \in FocusInputs :
              \/ SubmitNoKey(s, topic, focus_areas)
              \/ SubmitIncomplete(s, topic, focus_areas)
              \/ \E msg \in ErrorMessages : SubmitLabFails(s, topic, focus_areas, msg)
              \/ \E results \in ResultTrees :
                   \/ SubmitOpenFails(s, topic, focus_areas, results)
                   \/ SubmitBeginSave(s, topic, focus_areas, results)
         \/ FinishSave(s)
         \/ \E n \in PartialLengths(Encode(research_results[s])) :
              \/ FailSave(s, n)
              \/ Crash(s, n)

Spec == Init /\ [][Next]_vars

\* ------------------------------------------ two sessions on one file
\* Two browser sessions of the one server process, which share
\* research_results.json: each starts, is given a key, submits the form and
\* has its save completed, in any interleaving of these script runs.
NextShared ==
    \/ Tick
    \/ \E s \in Sessions :
         \/ StartSession(s)
         \/ \E k \in KeyInputs : EnterKey(s, k)
         \/ NewResearch(s)
         \/ \E topic \in TopicInputs, focus_areas \in FocusInputs, results \in ResultTrees :
              SubmitBeginSave(s, topic, focus_areas, results)
         \/ FinishSave(s)

SpecShared == Init /\ [][NextShared]_vars

\* ------------------------------------------- the export, over more trees
\* The scalars a result tree may hold: text without and with a marker, a
\* negative and a positive number, a boolean, None.
RenderScalars ==
    { Str(<<"a">>), Str(<<"#", "h">>), Num(<<"-", "1">>), Num(<<"7">>),
      Bool(<<"t", "r", "u", "e">>), JNull }

\* The values a rendered container holds: a scalar, a list, a dict.
RenderMembers ==
    RenderScalars \cup { List(<<Str(<<"a">>)>>), Dict(<<Pair(<<"k">>, Str(<<"a">>))>>) }

\* A tree nested n deep, dicts and lists in turn, around one string.
RECURSIVE Nest(_)
Nest(n) ==
    IF n = 0 THEN Str(<<"a">>)
    ELSE IF n % 2 = 1 THEN Dict(<<Pair(<<"k">>, Nest(n - 1))>>)
    ELSE List(<<Nest(n - 1)>>)

\* The result trees the export is run on: every scalar, every list and dict
\* of up to two members, and the nestings up to one more than the stack holds.
RenderTrees ==
    RenderScalars
    \cup { List(<<>>) } \cup { List(<<x>>) : x \in RenderMembers }
    \cup { List(<<x, y>>) : x \in RenderMembers, y \in RenderMembers }
    \cup { Dict(<<>>) } \cup { Dict(<<Pair(<<"p">>, x)>>) : x \in RenderMembers }
    \cup { Dict(<<Pair(<<"p">>, x), Pair(<<"q">>, y)>>) :
             x \in RenderMembers, y \in RenderMembers }
    \cup { Nest(n) : n \in 1..(StackLimit + 1) }

\* The file an earlier process left with one record of the given results.
RenderFiles ==
    { FileOf(Encode(Dict(<<Pair(Format(0), Record(<<"X">>, <<"f">>, t))>>))) :
        t \in RenderTrees }

InitRender ==
    /\ file \in RenderFiles
    /\ Quiescent

\* A session loads the file, opens its record and exports it.
NextRender ==
    \E s \in Solo :
      \/ StartSession(s)
      \/ \E id \in Offered(s) : SelectRecord(s, id)
      \/ Export(s)

SpecRender == InitRender /\ [][NextRender]_vars

\* ------------------------------------------------------------- properties
\* The records of a store, as the set of its (identifier, record) pairs.
Entries(d) == {<<d.items[i].text, d.items[i].items[1]>> : i \in 1..Len(d.items)}

\* File f holds identifier id with the record that store d holds under it.
Holds(f, d, id) ==
    /\ HasKey(Load(f), id)
    /\ Get(Load(f), id) = Get(d, id)

\* The file holds identifier id with the record the session holds under it.
Durable(s, id) == Holds(file, research_results[s], id)

\* The step stores the results of a completed research in session s.
Stores(s) ==
    /\ lab_called'[s]
    /\ research_results'[s] # research_results[s]

\* conduct_research gets past save_results in this step.
Completes(s) ==
    \/ pc[s] = "saving" /\ pc'[s] = "idle"
    \/ pc[s] = "idle" /\ pc'[s] = "idle" /\ frame'[s] # frame[s]

\* C1 (as claimed): every completed research is stored under an identifier of
\* its own: the store grows by one record and every earlier record is kept
\* as it was, also when several complete within one second.
C1_DistinctIdentifiers ==
    [][\A s \in Sessions :
         Stores(s) =>
           /\ Len(research_results'[s].items) = Len(research_results[s].items) + 1
           /\ Entries(research_results[s]) \subseteq Entries(research_results'[s])]_vars

\* C2 (as claimed): whenever the record view shows a record created in this
\* session, the file holds that record.
C2_DurableBeforeDisplay ==
    \A s \in Sessions :
      (current_view[s] = "view_research" /\ selected_research[s] \in created[s])
        => Durable(s, selected_research[s])

\* C2 (amended): whenever the record view shows a record created in this
\* session, save_results has returned for it (no write is pending or still to
\* be started); and when the view changes to a new record whose write was
\* committed, the file holds that record.
C2_SaveAttemptedBeforeDisplay ==
    [][\A s \in Sessions :
         /\ (current_view'[s] = "view_research" /\ selected_research'[s] \in created'[s])
              => /\ pc'[s] = "idle"
                 /\ last_save'[s] \in {"committed", "failed"}
         /\ (Completes(s) /\ last_save'[s] = "committed")
              => /\ selected_research'[s] \in created'[s]
                 /\ Holds(file', research_results'[s], selected_research'[s])]_vars

\* A record created in this session is on show after its write failed.
C2_Witness ==
    \E s \in Sessions :
      /\ current_view[s] = "view_research"
      /\ selected_research[s] \in created[s]
      /\ last_save[s] = "failed"
      /\ ~Durable(s, selected_research[s])

\* The mapping session s is writing or starts to write in this step.
Persisted(s) ==
    IF pc[s] = "saving" THEN research_results[s] ELSE research_results'[s]

\* C3 (as claimed): at every step of a write, a Load of the file gives the
\* complete previous mapping or the complete new one.
C3_AtomicPersist ==
    [][\A s \in Sessions :
         (pc[s] = "saving" \/ pc'[s] = "saving")
           => Load(file') \in {Load(file), Persisted(s)}]_vars

\* C4: once a write is committed, a Load of the file gives the mapping that
\* was persisted: the same identifiers in the same order, each with an equal
\* record.
C4_RoundTrip ==
    \A s \in Sessions :
      (pc[s] = "idle" /\ last_save[s] = "committed")
        => Load(file) = research_results[s]

\* A store of two records, one with a nested result tree, has been committed.
C4_Witness ==
    \E s \in Sessions :
      /\ pc[s] = "idle"
      /\ last_save[s] = "committed"
      /\ Len(research_results[s].items) >= 2
      /\ \E i \in 1..Len(research_results[s].items) :
           Get(research_results[s].items[i].items[1], K_results).tag = "dict"
      /\ Load(file) = research_results[s]

\* json.load cannot read the file.
Unreadable(f) == f.exists /\ ~JsonLoad(f.content).ok

StrictPrefixesUnreadable ==
    \A s \in Sessions :
      LET enc == Encode(research_results[s]) IN
      \A n \in 0..(Len(enc) - 1) : ~JsonLoad(SubSeq(enc, 1, n)).ok

\* The session has just handled a research that the collaborator completed
\* and whose write failed.
WriteJustFailed(s) ==
    /\ pc[s] = "idle"
    /\ trigger[s] = "form_submit"
    /\ lab_called[s]
    /\ ui[s].id # "error_during_research"
    /\ last_save[s] = "failed"

\* The record conduct_research built from its latest arguments.
FrameRecord(s) == Record(frame[s].topic, frame[s].focus_areas, frame[s].results)

\* The session holds the latest research's record under its timestamp.
HoldsNew(s) ==
    /\ HasKey(research_results[s], frame[s].timestamp)
    /\ Get(research_results[s], frame[s].timestamp) = FrameRecord(s)

\* C6 (as claimed): when the write of an insert fails, the session still
\* holds the record and a warning is shown.
C6_WriteFailureWarned ==
    \A s \in Sessions :
      WriteJustFailed(s) => (HoldsNew(s) /\ ui[s].kind = "warning")

\* C6 (amended): when the write of an insert fails, the session still holds
\* the record and shows it, and nothing is reported: no message is shown.
C6_WriteFailureSilent ==
    \A s \in Sessions :
      WriteJustFailed(s)
        => /\ HoldsNew(s)
           /\ current_view[s] = "view_research"
           /\ selected_research[s] = frame[s].timestamp
           /\ ui[s] = NoMessage

\* A write has failed part-way, leaving a file that cannot be read.
C6_Witness ==
    \E s \in Sessions :
      /\ WriteJustFailed(s)
      /\ Unreadable(file)
      /\ HoldsNew(s)

\* C7: a form submitted while no key is set shows the missing-key error; the
\* collaborator is not called and neither the store, the file nor the view
\* changes.
C7_MissingCredential ==
    [][\A s \in Sessions :
         (FormSubmitted(s) /\ SidebarKey(s) = NoKey /\ trigger'[s] = "form_submit")
           => /\ ui'[s] = ApiKeyError
              /\ ~lab_called'[s]
              /\ research_results'[s] = research_results[s]
              /\ file' = file
              /\ current_view'[s] = current_view[s]
              /\ selected_research'[s] = selected_research[s]
              /\ pc'[s] = pc[s]]_vars

\* The missing-key error is on show in a session whose store is not empty.
C7_Witness ==
    \E s \in Sessions :
      /\ ui[s] = ApiKeyError
      /\ api_key[s] = NoKey
      /\ trigger[s] = "form_submit"
      /\ Len(research_results[s].items) > 0

\* C8: when the collaborator fails, the error shown carries its message, and
\* neither the store, the file nor the view changes: the form stays.
C8_ExternalFailure ==
    [][\A s \in Sessions :
         (trigger'[s] = "form_submit" /\ lab_called'[s] /\ ui'[s].kind = "error")
           => /\ ui'[s].id = "error_during_research"
              /\ ui'[s].detail \in ErrorMessages
              /\ research_results'[s] = research_results[s]
              /\ created'[s] = created[s]
              /\ file' = file
              /\ last_save'[s] = last_save[s]
              /\ current_view[s] = "new_research"
              /\ current_view'[s] = "new_research"
              /\ selected_research'[s] = selected_research[s]
              /\ pc'[s] = "idle"]_vars

\* The collaborator's error is on show in a session whose store is not empty.
C8_Witness ==
    \E s \in Sessions :
      /\ lab_called[s]
      /\ ui[s].kind = "error"
      /\ ui[s].detail \in ErrorMessages
      /\ Len(research_results[s].items) > 0
      /\ current_view[s] = "new_research"

\* C10: when a research completes, its record is in the store before the view
\* changes, and the view then shows the identifier under which exactly that
\* record is stored.
C10_CompletionTransition ==
    [][\A s \in Sessions :
         /\ pc'[s] = "saving" => (HoldsNew(s))' /\ current_view'[s] = "new_research"
         /\ Completes(s)
              => /\ current_view'[s] = "view_research"
                 /\ selected_research'[s] = frame'[s].timestamp
                 /\ (HoldsNew(s))']_vars

\* A second research has completed and been written, and its record is on show.
C10_Witness ==
    \E s \in Sessions :
      /\ pc[s] = "idle"
      /\ trigger[s] = "form_submit"
      /\ last_save[s] = "committed"
      /\ current_view[s] = "view_research"
      /\ selected_research[s] = frame[s].timestamp
      /\ HoldsNew(s)
      /\ Len(research_results[s].items) >= 2

\* C11: a new session starts on the form, and the New Research button leads
\* to the form from whatever view it is pressed in, leaving the in-memory
\* store and the file as they were.
C11_FormViewTransitions ==
    [][\A s \in Sessions :
         /\ (pc[s] = "none" /\ pc'[s] # "none") => current_view'[s] = "new_research"
         /\ trigger'[s] = "new_research_button"
              => /\ current_view'[s] = "new_research"
                 /\ research_results'[s] = research_results[s]
                 /\ file' = file]_vars

\* New Research was pressed in the record view of a session that holds records.
C11_Witness ==
    \E s \in Sessions :
      /\ trigger[s] = "new_research_button"
      /\ current_view[s] = "new_research"
      /\ selected_research[s] # NoAttr
      /\ research_results[s] # EmptyDict

\* C12: the export is offered in the record view only, and it reads: the
\* view, the selection, the in-memory store and the file are as they were.
C12_ExportPureRead ==
    [][\A s \in Sessions :
         trigger'[s] = "export_button"
           => /\ current_view[s] = "view_research"
              /\ selected_research[s] # NoAttr
              /\ current_view'[s] = current_view[s]
              /\ selected_research'[s] = selected_research[s]
              /\ research_results'[s] = research_results[s]
              /\ file' = file]_vars

\* A record was exported: its document is offered for download.
C12_Witness ==
    \E s \in Sessions :
      /\ trigger[s] = "export_button"
      /\ download[s].shown
      /\ file.exists
      /\ download[s].data =
           Document(Get(research_results[s], selected_research[s]))

\* ------------------------------------------------ properties of the export
\* The record on show and the part of the offered document that
\* dict_to_markdown wrote (line 232).
Shown(s) == Get(research_results[s], selected_research[s])
Body(s) ==
    SubSeq(download[s].data, Len(DocumentHead(Shown(s))) + 1, Len(download[s].data))

\* C13 (as claimed): the export of a record never overflows the stack: whatever
\* the nesting of the results, pressing Export leaves a document to download.
C13_DepthSafe ==
    \A s \in Sessions :
      trigger[s] = "export_button"
        => download[s].shown /\ ui[s].kind # "exception"

\* The (key, value) pairs of a tree whose value is a scalar held by a dict.
RECURSIVE ScalarMembers(_)
ScalarMembers(t) ==
    IF ~IsContainer(t) THEN {}
    ELSE UNION { LET child == IF t.items[i].tag = "pair"
                              THEN t.items[i].items[1] ELSE t.items[i]
                 IN IF IsContainer(child) THEN ScalarMembers(child)
                    ELSE IF t.tag = "dict" THEN {<<t.items[i].text, child>>}
                    ELSE {} : i \in 1..Len(t.items) }

\* A scalar under its heading, as it is, and inside a code block.
Verbatim(key, v) ==
    <<"#", "#", "#", " ">> \o key \o <<"\n", "\n">> \o PyStr(v) \o <<"\n", "\n">>
Fenced(key, v) ==
    <<"#", "#", "#", " ">> \o key \o <<"\n", "\n">>
    \o Fence \o PyStr(v) \o <<"\n">> \o Fence \o <<"\n">>

\* The body holds the pair as it is (asIs) or else in a code block, not both.
Emits(body, key, v, asIs) ==
    /\ Contains(body, Verbatim(key, v)) <=> asIs
    /\ Contains(body, Fenced(key, v)) <=> ~asIs

\* C14 (as claimed): a scalar held by a mapping is emitted as it is exactly
\* when its textual form contains a marker, and in a code block otherwise.
C14_MarkupByText ==
    \A s \in Sessions :
      download[s].shown
        => \A m \in ScalarMembers(Get(Shown(s), K_results)) :
             Emits(Body(s), m[1], m[2], \E k \in Markers : Contains(PyStr(m[2]), k))

\* C14 (amended): a scalar held by a mapping is emitted as it is exactly when
\* it is a text string that contains a marker; every other scalar, a number,
\* boolean or None whatever its textual form included, is put in a code block.
C14_MarkupByString ==
    \A s \in Sessions :
      download[s].shown
        => \A m \in ScalarMembers(Get(Shown(s), K_results)) :
             Emits(Body(s), m[1], m[2],
                   m[2].tag = "str" /\ \E k \in Markers : Contains(m[2].text, k))

\* A document is on offer whose results hold a string with a marker and a
\* number whose text holds one.
C14_Witness ==
    \E s \in Sessions :
      /\ download[s].shown
      /\ <<<<"p">>, Str(<<"#", "h">>)>> \in ScalarMembers(Get(Shown(s), K_results))
      /\ <<<<"q">>, Num(<<"-", "1">>)>> \in ScalarMembers(Get(Shown(s), K_results))

\* The texts of the bullets that start a line of the body, in order.
RECURSIVE BulletTexts(_)
BulletTexts(lines) ==
    IF lines = <<>> THEN <<>>
    ELSE LET l == Head(lines) IN
         (IF Len(l) >= 2 /\ l[1] = "-" /\ l[2] = " "
          THEN <<SubSeq(l, 3, Len(l))>> ELSE <<>>)
         \o BulletTexts(Tail(lines))
TopBullets(body) == BulletTexts(Split(body, "\n"))

\* C15 (as claimed): a sequence gives one bullet per element, in order: a
\* scalar is the text of its bullet, a mapping or sequence has a bullet of its
\* own (under which it is nested).
C15_BulletPerElement ==
    \A s \in Sessions :
      (download[s].shown /\ Get(Shown(s), K_results).tag = "list")
        => LET xs == Get(Shown(s), K_results).items
               bullets == TopBullets(Body(s))
           IN /\ Len(bullets) = Len(xs)
              /\ \A i \in 1..Len(xs) :
                   ~IsContainer(xs[i]) => bullets[i] = PyStr(xs[i])

\* ------------------------------------------------------ the focus areas
\* C16 (as claimed): no focus area that the collaborator was handed is empty.
C16_NoEmptyFocusArea ==
    \A s \in Sessions :
      frame[s] # NoFrame
        => \A i \in 1..Len(frame[s].task_notes.focus_areas) :
             frame[s].task_notes.focus_areas[i] # <<>>

\* ------------------------------------------------------- the credential
\* The keys a user may have entered.  (No other text of the model holds a
\* character of theirs, so a key in the file is one that was written there.)
Credentials == KeyInputs \ {NoKey}

\* A string of the file holds a key.
Leaks(f) ==
    \E i \in 1..Len(f.content), k \in Credentials : Contains(f.content[i].v, k)

\* C17: no write puts the key in the file, and a new session starts with no
\* key set.
C17_CredentialConfined ==
    [][/\ ~Leaks(file')
       /\ \A s \in Sessions :
            (pc[s] = "none" /\ pc'[s] # "none")
              => api_key'[s] = NoKey /\ api_key_input'[s] = <<>>]_vars

\* A session that had a key wrote a record to the file, and the session that
\* started after it has no key.
C17_Witness ==
    \E s \in Sessions :
      /\ trigger[s] = "start"
      /\ api_key[s] = NoKey
      /\ file.exists
      /\ \E t \in 1..MaxClock : HasKey(research_results[s], Format(t))

\* ------------------------------------------------- the store's lifecycle
\* C18: in a session the in-memory store changes only when the session starts
\* (the one load) and when results are inserted; an insert calls save_results
\* once, in the same run; a write that completes leaves the file equal to the
\* whole in-memory mapping; the file changes only in a save, so the record
\* buttons, New Research and Export write nothing.
C18_StoreLifecycle ==
    [][/\ file' # file => \E s \in Sessions : pc[s] = "saving" \/ pc'[s] = "saving"
       /\ \A s \in Sessions :
         /\ research_results'[s] # research_results[s]
              => \/ pc[s] = "none"
                 \/ pc'[s] = "none"
                 \/ /\ pc[s] = "idle"
                    /\ trigger'[s] = "form_submit"
                    /\ lab_called'[s]
                    /\ research_results'[s] =
                         DictSet(research_results[s], frame'[s].timestamp,
                                 Record(frame'[s].topic, frame'[s].focus_areas,
                                        frame'[s].results))
         /\ Stores(s)
              => /\ last_save'[s] \in {"writing", "failed"}
                 /\ last_save'[s] = "writing" <=> pc'[s] = "saving"
         /\ (pc'[s] = "idle" /\ last_save'[s] = "committed")
              => file'.content = Encode(research_results'[s])
         /\ trigger'[s] \in {"record_button", "new_research_button", "export_button"}
              => file' = file]_vars

\* A session inserted twice, both writes completed, and the record on show
\* was exported: the file is the whole in-memory mapping.
C18_Witness ==
    \E s \in Sessions :
      /\ trigger[s] = "export_button"
      /\ last_save[s] = "committed"
      /\ Cardinality(created[s]) = 2
      /\ file.content = Encode(research_results[s])

\* ------------------------------------------------------ shared file
\* C19 (as claimed): once two sessions have each stored results, under
\* different identifiers, and both writes have completed, the file holds both
\* sessions' records.
C19_NoLostUpdate ==
    (/\ \A s \in Sessions : pc[s] = "idle" /\ last_save[s] = "committed"
     /\ \A s, t \in Sessions : s # t => created[s] \cap created[t] = {})
      => \A s \in Sessions : \A id \in created[s] : HasKey(Load(file), id)

\* ------------------------------------------------------ the active record
\* C20: whenever the record view is the current view, a record is selected
\* and the in-memory store holds it.
C20_ActiveResolvable ==
    \A s \in Sessions :
      current_view[s] = "view_research"
        => /\ selected_research[s] # NoAttr
           /\ HasKey(research_results[s], selected_research[s])

\* The record view shows a record loaded from the file, picked in the sidebar
\* after the session stored one of its own.
C20_Witness ==
    \E s \in Sessions :
      /\ current_view[s] = "view_research"
      /\ trigger[s] = "record_button"
      /\ created[s] # {}
      /\ selected_research[s] \notin created[s]
      /\ HasKey(research_results[s], selected_research[s])

====
